---- MODULE Spec2Model ----
(***************************************************************************)
(* Model of data_generation.py: the historical sales generator and the     *)
(* intraday telemetry generator, run one after the other by the entry      *)
(* point.                                                                   *)
(*                                                                          *)
(* Numbers.  The program computes in binary floating point.  The model     *)
(* computes the same expressions in exact rational arithmetic: a real is a *)
(* reduced fraction <<n, d>> with d > 0.  sin and ** have no exact         *)
(* rational value and are evaluated to three decimals.  A rounded field of *)
(* an emitted row (round(x, k)) is kept as the integer count of its last   *)
(* decimal place (round(x, 2) = 0.60 is kept as 60).                        *)
(*                                                                          *)
(* Randomness.  The module `random` is a seeded pseudo random generator:   *)
(* once the seed is fixed the draw sequence is fixed.  The generator of    *)
(* the model has a seed of three raw values (any three, chosen in Init)    *)
(* that it reads cyclically; one raw value r stands for                    *)
(* random.random() = r / RandRes.                                           *)
(***************************************************************************)
EXTENDS Integers, Sequences, FiniteSets, TLC

\* ------------------------------------------------------------------ bounds
MaxDays == 2
MaxRegions == 2
MaxSkus == 2
MaxHours == 3
RandRes == 4

\* ------------------------------------------------------ rational arithmetic
Abs(x) == IF x < 0 THEN -x ELSE x

RECURSIVE GCD(_, _)
GCD(a, b) == IF b = 0 THEN a ELSE GCD(b, a % b)

Frac(n, d) ==
    LET s == IF d < 0 THEN -1 ELSE 1
        g == GCD(Abs(n), Abs(d))
    IN  <<(s * n) \div g, (s * d) \div g>>

Whole(n) == <<n, 1>>

FMul(x, y) ==
    LET a == Frac(x[1], y[2])
        b == Frac(y[1], x[2])
    IN  <<a[1] * b[1], a[2] * b[2]>>

FAdd(x, y) ==
    LET g == GCD(x[2], y[2])
    IN  Frac(x[1] * (y[2] \div g) + y[1] * (x[2] \div g), (x[2] \div g) * y[2])

FNeg(x) == <<-x[1], x[2]>>
FSub(x, y) == FAdd(x, FNeg(y))
FDiv(x, y) == FMul(x, Frac(y[2], y[1]))
FLt(x, y) == FSub(x, y)[1] < 0
FLe(x, y) == FSub(x, y)[1] <= 0
FMax(x, y) == IF FLt(x, y) THEN y ELSE x

\* Python's int(x): truncation toward zero.
PyInt(x) == IF x[1] >= 0 THEN x[1] \div x[2] ELSE -((-x[1]) \div x[2])

\* Python's round(x, 0) on the exact value: nearest integer, ties to even.
RoundInt(x) ==
    LET q == x[1] \div x[2]
        twice == 2 * (x[1] - q * x[2])
    IN  IF twice < x[2] THEN q
        ELSE IF twice > x[2] THEN q + 1
        ELSE IF q % 2 = 0 THEN q ELSE q + 1

\* round(x, 1) and round(x, 2), as counts of tenths and of hundredths.
Round1(x) == RoundInt(FMul(x, Whole(10)))
Round2(x) == RoundInt(FMul(x, Whole(100)))

\* x ** e for x = 1 + h near 1: the binomial series to the third order,
\* evaluated to three decimals.
Pow(x, e) ==
    LET h  == FSub(x, Whole(1))
        t1 == FMul(e, h)
        t2 == FMul(FMul(t1, FSub(e, Whole(1))), FMul(h, Frac(1, 2)))
        t3 == FMul(FMul(t2, FSub(e, Whole(2))), FMul(h, Frac(1, 3)))
    IN  Frac(RoundInt(FMul(FAdd(FAdd(Whole(1), t1), FAdd(t2, t3)), Whole(1000))), 1000)

\* np.sin(2 * np.pi * n / 365): Bhaskara's rational approximation of the sine
\* of p half turns, p = 2n/365, evaluated to three decimals.
SinTurn(n) ==
    LET m == n % 365
        p == IF 2 * m <= 365 THEN 2 * m ELSE 2 * m - 365
        v == (16000 * p * (365 - p)) \div (5 * 365 * 365 - 4 * p * (365 - p))
    IN  Frac(IF 2 * m <= 365 THEN v ELSE -v, 1000)

\* ---------------------------------------------------------------- calendar
\* A date is its proleptic Gregorian ordinal (date.toordinal()).
DaysBeforeMonth == <<0, 31, 59, 90, 120, 151, 181, 212, 243, 273, 304, 334>>
DaysInMonth == <<31, 28, 31, 30, 31, 30, 31, 31, 30, 31, 30, 31>>

\* datetime: ordinal -> <<year, month, day>>.
Ymd(ordinal) ==
    LET n0   == ordinal - 1
        n400 == n0 \div 146097
        r400 == n0 % 146097
        n100 == r400 \div 36524
        r100 == r400 % 36524
        n4   == r100 \div 1461
        r4   == r100 % 1461
        n1   == r4 \div 365
        n    == r4 % 365
        year == n400 * 400 + 1 + n100 * 100 + n4 * 4 + n1
        leap == n1 = 3 /\ (n4 # 24 \/ n100 = 3)
        m0   == (n + 50) \div 32
        p0   == DaysBeforeMonth[m0] + (IF m0 > 2 /\ leap THEN 1 ELSE 0)
        month == IF p0 > n THEN m0 - 1 ELSE m0
        prec == IF p0 > n
                THEN p0 - (DaysInMonth[month] + (IF month = 2 /\ leap THEN 1 ELSE 0))
                ELSE p0
    IN  IF n1 = 4 \/ n100 = 4 THEN <<year - 1, 12, 31>>
        ELSE <<year, month, n - prec + 1>>

\* date.weekday(): 0 = Monday ... 6 = Sunday.
Weekday(ordinal) == (ordinal + 6) % 7
Month(ordinal) == Ymd(ordinal)[2]
\* strftime('%Y-%m-%d'): the date string, kept as its three numbers.
DateStr(ordinal) == Ymd(ordinal)

\* ----------------------------------------------------------- configuration
NUM_DAYS == MaxDays
STORES_PER_REGION == 5
\* range(2): the store loop of generate_historical_sales.
StoreCount == 2
\* range(7 * 24): the hour loop of generate_intraday_telemetry.
HOURS == MaxHours

REGIONS ==
    SubSeq(<<"Pune", "Nashik", "Mumbai", "Nagpur", "Aurangabad", "Kolhapur",
             "Solapur", "Amravati", "Nanded", "Jalgaon">>, 1, MaxRegions)

\* r.upper()
Upper(r) ==
    CASE r = "Pune" -> "PUNE" [] r = "Nashik" -> "NASHIK" [] r = "Mumbai" -> "MUMBAI"
      [] r = "Nagpur" -> "NAGPUR" [] r = "Aurangabad" -> "AURANGABAD"
      [] r = "Kolhapur" -> "KOLHAPUR" [] r = "Solapur" -> "SOLAPUR"
      [] r = "Amravati" -> "AMRAVATI" [] r = "Nanded" -> "NANDED"
      [] r = "Jalgaon" -> "JALGAON"

\* f"MANDI_{r.upper()}", kept as its two parts.
MANDIS(r) == <<"MANDI_", Upper(r)>>

SKUS ==
    SubSeq(<<"MUSH-200g", "MUSH-250g", "MUSH-500g", "MUSH-1kg", "MUSH-5kg">>, 1, MaxSkus)

PACKAGING_MAP ==
    [sku \in {"MUSH-200g", "MUSH-250g", "MUSH-500g", "MUSH-1kg", "MUSH-5kg"} |->
        CASE sku = "MUSH-200g" -> Frac(1, 5)
          [] sku = "MUSH-250g" -> Frac(1, 4)
          [] sku = "MUSH-500g" -> Frac(1, 2)
          [] sku = "MUSH-1kg"  -> Whole(1)
          [] sku = "MUSH-5kg"  -> Whole(5)]

CHANNELS == <<"B2B", "B2C">>

SEASONALITY_MONTHS ==
    [m \in {11, 12, 1} |->
        CASE m = 11 -> Frac(12, 10) [] m = 12 -> Frac(13, 10) [] m = 1 -> Frac(11, 10)]

WEEKDAY_FACTORS ==
    [c \in {"B2B", "B2C"} |->
        IF c = "B2B"
        THEN <<Frac(11, 10), Frac(11, 10), Frac(11, 10), Frac(12, 10),
               Frac(13, 10), Frac(8, 10), Frac(7, 10)>>
        ELSE <<Frac(8, 10), Frac(8, 10), Frac(8, 10), Frac(9, 10),
               Frac(11, 10), Frac(13, 10), Frac(12, 10)>>]

\* The module level configuration, as the generators read it.
Configuration ==
    [REGIONS |-> REGIONS, SKUS |-> SKUS, PACKAGING_MAP |-> PACKAGING_MAP,
     CHANNELS |-> CHANNELS, WEEKDAY_FACTORS |-> WEEKDAY_FACTORS]

\* ------------------------------------------------------------ random source
Raw == 0 .. (RandRes - 1)
Seeds == Raw \X Raw \X Raw

\* random.random() for the raw value r.
Random(r) == Frac(r, RandRes)
\* random.random() < p
Chance(r, p) == FLt(Random(r), p)
\* random.uniform(a, b) = a + (b - a) * random()
Uniform(a, b, r) == FAdd(a, FMul(FSub(b, a), Random(r)))
\* random.randint(a, b)
Randint(a, b, r) == a + (r * (b - a + 1)) \div RandRes
\* random.normalvariate(mu, sigma): mu + sigma * z, z spread over [-3, 3].
Normalvariate(mu, sigma, r) ==
    FAdd(Whole(mu), FMul(Whole(sigma), Frac(3 * (2 * r - RandRes + 1), RandRes - 1)))

\* The wall clocks a run may start at: <<date, hour>> of datetime.today().
Clocks ==
    { [day |-> 739922, hour |-> 10],    \* Mon 2026-11-02
      [day |-> 739784, hour |-> 19],    \* Wed 2026-06-17
      [day |-> 739981, hour |-> 22] }   \* Thu 2026-12-31

\* ------------------------------------------- generate_historical_sales: steps
None == [none |-> TRUE]
Min(a, b) == IF a <= b THEN a ELSE b

\* Global Daily Features of one day; d is the sequence of draws it may use.
\* The second wedding draw is made only in a month of SEASONALITY_MONTHS.
DailyDraws(month) == IF month \in DOMAIN SEASONALITY_MONTHS THEN 5 ELSE 4

DailyGlobal(start, day_offset, d) ==
    LET curr_date == start + day_offset
        month == Month(curr_date)
        peak == month \in DOMAIN SEASONALITY_MONTHS
        base == Uniform(Whole(0), Frac(3, 10), d[2])
        k == IF peak THEN 1 ELSE 0
    IN  [curr_date |-> curr_date,
         date_str |-> DateStr(curr_date),
         weekday |-> Weekday(curr_date),
         month |-> month,
         panchang_fasting |-> IF Chance(d[1], Frac(15, 100)) THEN 1 ELSE 0,
         wedding_density |->
             IF peak THEN FAdd(base, Uniform(Frac(3, 10), Frac(6, 10), d[3])) ELSE base,
         festival_flag |-> IF Chance(d[3 + k], Frac(5, 100)) THEN 1 ELSE 0,
         logistics_disruption |-> IF Chance(d[4 + k], Frac(2, 100)) THEN 1 ELSE 0,
         base_temp |-> FAdd(Whole(25), FMul(Whole(10), SinTurn(day_offset)))]

\* Region-specific weather and mandi price of one (day, region).  The rain
\* draws are made only when humidity > 70 (and rainfall only when that draw
\* is below 0.3).
Humidity(d) == Uniform(Whole(30), Whole(90), d[3])
Rainy(d) == FLt(Whole(70), Humidity(d))
Rains(d) == Rainy(d) /\ Chance(d[4], Frac(3, 10))
RegionDraws(d) == IF Rains(d) THEN 7 ELSE IF Rainy(d) THEN 6 ELSE 5

RegionDay(day, region, d) ==
    LET temp_max == FAdd(day.base_temp, Uniform(Whole(-3), Whole(5), d[1]))
        n == RegionDraws(d)
        volatility == Uniform(Frac(9, 10), Frac(11, 10), d[n - 1])
    IN  [region |-> region,
         mandi_id |-> MANDIS(region),
         temp_max |-> temp_max,
         temp_min |-> FSub(temp_max, Uniform(Whole(8), Whole(15), d[2])),
         humidity |-> Humidity(d),
         rainfall |-> IF Rains(d) THEN Uniform(Whole(5), Whole(100), d[5]) ELSE Whole(0),
         mandi_price |->
             FMul(Whole(120),
                  IF day.festival_flag = 1 THEN FAdd(volatility, Frac(1, 10)) ELSE volatility),
         mandi_change |-> Uniform(Whole(-10), Whole(10), d[n])]

\* Demand Generation Logic.
BaseDemand(channel) == IF channel = "B2C" THEN 50 ELSE 200

SeasonFactor(month) ==
    IF month \in DOMAIN SEASONALITY_MONTHS THEN SEASONALITY_MONTHS[month] ELSE Whole(1)

\* Mutant: the fasting factor applied to every channel.
FastingImpactAnyChannel(panchang_fasting, channel) ==
    IF panchang_fasting = 1 THEN Frac(7, 10) ELSE Whole(1)

FastingImpact(panchang_fasting, channel) ==
    IF panchang_fasting = 1 /\ channel = "B2C" THEN Frac(7, 10) ELSE Whole(1)

WeddingImpact(wedding_density, channel) ==
    IF channel = "B2B" THEN FAdd(Whole(1), wedding_density) ELSE Whole(1)

OptimalPrice(mandi_price, channel, pkg_size) ==
    FAdd(FMul(mandi_price, IF channel = "B2B" THEN Frac(12, 10) ELSE Frac(15, 10)),
         FMul(pkg_size, Whole(10)))

Elasticity(channel) == IF channel = "B2C" THEN Frac(-15, 10) ELSE Frac(-8, 10)

PriceFactor(price_offered, optimal_price, channel) ==
    Pow(FDiv(price_offered, optimal_price), Elasticity(channel))

DemandUnits(base, season, weekday, fasting, wedding, price, noise) ==
    PyInt(FMul(FMul(FMul(FMul(FMul(FMul(Whole(base), season), weekday), fasting),
                         wedding), price), noise))

\* Mutant: the normal supply may fall short of demand (0.9 for 1.0).
InventoryReceivedShort(demand_units, pkg_size, logistics_disruption, r) ==
    FMul(FMul(Whole(demand_units), pkg_size),
         IF logistics_disruption = 1
         THEN Uniform(Frac(5, 10), Frac(8, 10), r)
         ELSE Uniform(Frac(9, 10), Frac(12, 10), r))

\* Logistics Disruption.
InventoryReceived(demand_units, pkg_size, logistics_disruption, r) ==
    FMul(FMul(Whole(demand_units), pkg_size),
         IF logistics_disruption = 1
         THEN Uniform(Frac(5, 10), Frac(8, 10), r)
         ELSE Uniform(Whole(1), Frac(12, 10), r))

\* Mutant: sales not capped by the stock received.
SalesUnitsUncapped(demand_units, inventory_received, pkg_size) == demand_units

SalesUnits(demand_units, inventory_received, pkg_size) ==
    Min(demand_units, PyInt(FDiv(inventory_received, pkg_size)))

\* Wastage.
DecayRate(temp_max, humidity) ==
    FAdd(FAdd(Frac(1, 10), IF FLt(Whole(30), temp_max) THEN Frac(5, 100) ELSE Whole(0)),
         IF FLt(Whole(80), humidity) THEN Frac(5, 100) ELSE Whole(0))

Wastage(inventory_received, sales_kg, temp_max, humidity) ==
    FMul(FMax(Whole(0), FSub(inventory_received, sales_kg)), DecayRate(temp_max, humidity))

\* The packaging label, kept as <<number, unit>>.
Packaging(pkg_size) ==
    IF FLt(pkg_size, Whole(1))
    THEN <<PyInt(FMul(pkg_size, Whole(1000))), "g">>
    ELSE <<PyInt(pkg_size), "kg">>

\* The local variables of one pass of the store loop; d: its seven draws.
RowLocals(cf, day, reg, sku, channel, d) ==
    LET pkg_size == cf.PACKAGING_MAP[sku]
        base_demand == BaseDemand(channel)
        season_factor == SeasonFactor(day.month)
        weekday_factor == cf.WEEKDAY_FACTORS[channel][day.weekday + 1]
        fasting_impact == FastingImpact(day.panchang_fasting, channel)
        wedding_impact == WeddingImpact(day.wedding_density, channel)
        optimal_price == OptimalPrice(reg.mandi_price, channel, pkg_size)
        price_offered == FMul(optimal_price, Uniform(Frac(95, 100), Frac(105, 100), d[1]))
        price_factor == PriceFactor(price_offered, optimal_price, channel)
        noise == Uniform(Frac(8, 10), Frac(12, 10), d[2])
        demand_units == DemandUnits(base_demand, season_factor, weekday_factor,
                                    fasting_impact, wedding_impact, price_factor, noise)
        inventory_received ==
            InventoryReceived(demand_units, pkg_size, day.logistics_disruption, d[3])
        sales_units == SalesUnits(demand_units, inventory_received, pkg_size)
        sales_kg == FMul(Whole(sales_units), pkg_size)
    IN  [sku |-> sku, channel |-> channel, pkg_size |-> pkg_size,
         base_demand |-> base_demand, season_factor |-> season_factor,
         weekday_factor |-> weekday_factor, fasting_impact |-> fasting_impact,
         wedding_impact |-> wedding_impact, optimal_price |-> optimal_price,
         price_offered |-> price_offered, price_factor |-> price_factor,
         noise |-> noise, demand_units |-> demand_units,
         inventory_received |-> inventory_received, sales_units |-> sales_units,
         sales_kg |-> sales_kg,
         wastage_kg |-> Wastage(inventory_received, sales_kg, reg.temp_max, reg.humidity)]

\* The row dictionary appended to data.
HistoricalRow(day, reg, l, store_idx, d) ==
    [date |-> day.date_str,
     region_id |-> reg.region,
     mandi_id |-> reg.mandi_id,
     store_id |-> <<reg.region, l.channel, store_idx>>,
     sku_id |-> l.sku,
     channel |-> l.channel,
     packaging |-> Packaging(l.pkg_size),
     sales_units |-> l.sales_units,
     sales_kg |-> Round2(l.sales_kg),
     inventory_received_kg |-> Round2(l.inventory_received),
     wastage_kg |-> Round2(l.wastage_kg),
     price_offered_per_kg |-> Round2(l.price_offered),
     optimal_price_per_kg |-> Round2(l.optimal_price),
     b2b_b2c_ratio |-> IF l.channel = "B2B" THEN Frac(8, 10) ELSE Frac(2, 10),
     mandi_price_per_kg |-> Round2(reg.mandi_price),
     mandi_price_change_1d |-> Round2(reg.mandi_change),
     panchang_fasting_flag |-> day.panchang_fasting,
     wedding_density_30d |-> Round2(day.wedding_density),
     festival_flag |-> day.festival_flag,
     temp_max_c |-> Round1(reg.temp_max),
     temp_min_c |-> Round1(reg.temp_min),
     humidity_avg |-> Round1(reg.humidity),
     rainfall_mm |-> Round1(reg.rainfall),
     logistics_disruption_flag |-> day.logistics_disruption,
     volatility_score_14d |-> Round2(Uniform(Whole(0), Whole(1), d[4])),
     packaging_pref_score |-> Round2(Uniform(Frac(3, 10), Frac(9, 10), d[5])),
     lag_1_sales |->
         PyInt(FMul(Whole(l.sales_units), Uniform(Frac(9, 10), Frac(11, 10), d[6]))),
     lag_7_sales_mean |->
         Round2(FMul(Whole(l.sales_units), Uniform(Frac(8, 10), Frac(12, 10), d[7]))),
     label_daily_demand |-> l.demand_units]

\* Mutant: the row's fasting flag taken from the row's own fasting factor.
AppendRowOwnFlag(rows, day, reg, l, store_idx, d) ==
    Append(rows, [HistoricalRow(day, reg, l, store_idx, d) EXCEPT
                     !.panchang_fasting_flag = IF l.fasting_impact = Whole(1) THEN 0 ELSE 1])

\* data.append(row)
AppendRow(rows, day, reg, l, store_idx, d) ==
    Append(rows, HistoricalRow(day, reg, l, store_idx, d))

\* Mutant: the channel loop nested inside the store loop.
NextStoreChannelInner(cf, sku_i, channel_i, store_idx) ==
    IF channel_i < Len(cf.CHANNELS) THEN <<sku_i, channel_i + 1, store_idx>>
    ELSE IF store_idx + 1 < StoreCount THEN <<sku_i, 1, store_idx + 1>>
    ELSE IF sku_i < Len(cf.SKUS) THEN <<sku_i + 1, 1, 0>>
    ELSE None

\* The loop indices after one pass of the store loop: <<sku, channel, store>>
\* (1-based positions in SKUS and CHANNELS), or None when the SKU loop ends.
NextStore(cf, sku_i, channel_i, store_idx) ==
    IF store_idx + 1 < StoreCount THEN <<sku_i, channel_i, store_idx + 1>>
    ELSE IF channel_i < Len(cf.CHANNELS) THEN <<sku_i, channel_i + 1, 0>>
    ELSE IF sku_i < Len(cf.SKUS) THEN <<sku_i + 1, 1, 0>>
    ELSE None

\* ----------------------------------------- generate_intraday_telemetry: steps
\* start_dt + timedelta(hours=hour_offset), as [day, hour].
AddHours(dt, h) ==
    [day |-> dt.day + (dt.hour + h) \div 24, hour |-> (dt.hour + h) % 24]

\* strftime('%Y-%m-%d %H:%M:%S'), kept as <<year, month, day, hour>>.
DateTimeStr(dt) == Ymd(dt.day) \o <<dt.hour>>

HourlyProfile ==
    [h \in 0 .. 23 |->
        IF h < 8 THEN Frac(1, 100)
        ELSE IF h = 8 \/ h = 17 THEN Frac(5, 100)
        ELSE IF h = 9 \/ h = 16 THEN Frac(8, 100)
        ELSE IF h < 16 THEN Frac(10, 100)
        ELSE IF h = 18 THEN Frac(2, 100)
        ELSE IF h = 19 THEN Frac(1, 100)
        ELSE Whole(0)]

\* Mutant: the two tests in the other order, heavy_rain overriding strike.
EventRainLast(rain_r, strike_r) ==
    LET event == IF Chance(strike_r, Frac(5, 1000)) THEN "strike" ELSE "none"
    IN  IF Chance(rain_r, Frac(1, 100)) THEN "heavy_rain" ELSE event

\* Events: the strike draw is made after the heavy_rain draw.
Event(rain_r, strike_r) ==
    LET event == IF Chance(rain_r, Frac(1, 100)) THEN "heavy_rain" ELSE "none"
    IN  IF Chance(strike_r, Frac(5, 1000)) THEN "strike" ELSE event

\* Logistics: the delay after both statements; minor_r is the draw of the
\* second statement, strike_delay_r and minor_delay_r those of the randint calls.
Delay(event, strike_delay_r, minor_r, minor_delay_r) ==
    LET delay == IF event = "strike" THEN Randint(60, 300, strike_delay_r) ELSE 0
    IN  IF Chance(minor_r, Frac(5, 100)) THEN Randint(10, 45, minor_delay_r) ELSE delay

\* The number of draws of one pass of the region loop.
TelemetryDraws(d) ==
    LET k == IF Event(d[4], d[5]) = "strike" THEN 1 ELSE 0
    IN  8 + k + (IF Chance(d[7 + k], Frac(5, 100)) THEN 1 ELSE 0)

\* The local variables of one pass of the region loop of the hour loop.
TelemetryLocals(curr_dt, region, d) ==
    LET is_daytime == 8 <= curr_dt.hour /\ curr_dt.hour <= 20
        event == Event(d[4], d[5])
        k == IF event = "strike" THEN 1 ELSE 0
        normal == IF is_daytime THEN PyInt(Normalvariate(50, 15, d[6]))
                  ELSE PyInt(Normalvariate(5, 2, d[6]))
        baseline_hourly ==
            FMul(Whole(1000), IF curr_dt.hour < 24 THEN HourlyProfile[curr_dt.hour] ELSE Whole(0))
    IN  [region |-> region,
         dt_str |-> DateTimeStr(curr_dt),
         is_daytime |-> is_daytime,
         mandi_price |-> FAdd(Whole(120), Uniform(Whole(-5), Whole(5), d[1])),
         temp |-> FAdd(Whole(IF is_daytime THEN 30 ELSE 20), Uniform(Whole(-2), Whole(2), d[2])),
         humidity |-> FAdd(Whole(60), Uniform(Whole(-10), Whole(10), d[3])),
         \* the values random.random() returned to the three event tests
         rain_draw |-> Random(d[4]),
         strike_draw |-> Random(d[5]),
         minor_draw |-> Random(d[7 + k]),
         event |-> event,
         pos_tx |-> IF event = "heavy_rain" THEN PyInt(FMul(Whole(normal), Frac(5, 10)))
                    ELSE normal,
         delay |-> Delay(event, d[7], d[7 + k], d[8 + k]),
         baseline_hourly |-> baseline_hourly,
         actual_sales |->
             PyInt(FMul(baseline_hourly,
                        Uniform(Frac(8, 10), Frac(12, 10), d[TelemetryDraws(d)])))]

\* The row dictionary appended to the telemetry data.
TelemetryRow(l) ==
    [datetime |-> l.dt_str,
     region_id |-> l.region,
     mandi_price_per_kg |-> Round2(l.mandi_price),
     pos_transactions_last_hour |-> l.pos_tx,
     vehicle_delay_minutes |-> l.delay,
     weather_now_temp |-> Round1(l.temp),
     weather_now_humidity |-> Round1(l.humidity),
     logistics_disruption_flag |-> IF l.delay > 60 THEN 1 ELSE 0,
     intraday_baseline_pred |-> Round2(l.baseline_hourly),
     intraday_actual_sales_partial |-> l.actual_sales,
     intraday_event |-> l.event]

\* -------------------------------------------------------------------- state
VARIABLES
    seed,         \* the seed of the random source
    rng,          \* its position: the number of draws made, modulo Len(seed)
    clock,        \* the wall clock read by datetime.today() and datetime.now()
    cfg,          \* the module level configuration
    START_DATE,   \* datetime.today() - timedelta(days=NUM_DAYS), set at import
    pc,           \* the position of the entry point
    day_offset, region_i, sku_i, channel_i, store_idx,   \* the loops of the sales generator
    daily,        \* the Global Daily Features of the current day
    regional,     \* the weather and mandi price of the current (day, region)
    loc,          \* the locals of the last pass of the store loop
    data,         \* the rows of generate_historical_sales
    start_dt, hour_offset, tregion_i,                    \* the loops of the telemetry generator
    tloc,         \* the locals of the last pass of the telemetry region loop
    tdata,        \* the rows of generate_intraday_telemetry
    files,        \* the files written: name -> rows
    run,          \* the number of this run of the program
    first         \* the files the first run wrote, once the program is run again

vars ==
    <<seed, rng, clock, cfg, START_DATE, pc, day_offset, region_i, sku_i, channel_i,
      store_idx, daily, regional, loc, data, start_dt, hour_offset, tregion_i, tloc,
      tdata, files, run, first>>

histLoop == <<day_offset, region_i, sku_i, channel_i, store_idx>>
histState == <<daily, regional, loc, data>>
teleState == <<start_dt, hour_offset, tregion_i, tloc, tdata>>
world == <<seed, clock, cfg, START_DATE, run, first>>

NoFiles == [f \in {} |-> <<>>]

\* The next n draws of the random source.
Draws(n) == [i \in 1 .. n |-> seed[((rng + i - 1) % Len(seed)) + 1]]

\* The program as started: the module level statements have run.
Started(sd, c, cf) ==
    /\ seed = sd /\ rng = 0
    /\ clock = c
    /\ cfg = cf
    /\ START_DATE = c.day - NUM_DAYS
    /\ pc = "main"
    /\ day_offset = 0 /\ region_i = 0 /\ sku_i = 0 /\ channel_i = 0 /\ store_idx = 0
    /\ daily = None /\ regional = None /\ loc = None /\ data = <<>>
    /\ start_dt = None /\ hour_offset = 0 /\ tregion_i = 0 /\ tloc = None /\ tdata = <<>>
    /\ files = NoFiles

Init ==
    /\ \E sd \in Seeds, c \in Clocks : Started(sd, c, Configuration)
    /\ run = 1 /\ first = None

\* generate_historical_sales is called: data = [].
StartHistorical ==
    /\ pc = "main"
    /\ pc' = "days"
    /\ data' = <<>>
    /\ day_offset' = 0
    /\ UNCHANGED <<rng, region_i, sku_i, channel_i, store_idx, daily, regional, loc,
                   teleState, files, world>>

\* One pass of the day loop, up to its region loop.
DayStep ==
    /\ pc = "days" /\ day_offset < NUM_DAYS
    /\ daily' = DailyGlobal(START_DATE, day_offset, Draws(5))
    /\ rng' = (rng + DailyDraws(Month(START_DATE + day_offset))) % Len(seed)
    /\ region_i' = 1
    /\ pc' = "regions"
    /\ UNCHANGED <<day_offset, sku_i, channel_i, store_idx, regional, loc, data,
                   teleState, files, world>>

\* One pass of the region loop, up to its SKU loop.  With no SKU or no
\* channel the inner loops make no pass and the region loop goes on.
RegionStep ==
    /\ pc = "regions" /\ region_i <= Len(cfg.REGIONS)
    /\ regional' = RegionDay(daily, cfg.REGIONS[region_i], Draws(7))
    /\ rng' = (rng + RegionDraws(Draws(7))) % Len(seed)
    /\ IF cfg.SKUS = <<>> \/ cfg.CHANNELS = <<>>
       THEN /\ region_i' = region_i + 1
            /\ UNCHANGED <<pc, sku_i, channel_i, store_idx>>
       ELSE /\ pc' = "stores"
            /\ sku_i' = 1 /\ channel_i' = 1 /\ store_idx' = 0
            /\ UNCHANGED region_i
    /\ UNCHANGED <<day_offset, daily, loc, data, teleState, files, world>>

\* One pass of the store loop: a row is computed and appended.  An index
\* past the end of the weekday table raises IndexError, which ends the program.
RowStep ==
    /\ pc = "stores"
    /\ LET sku == cfg.SKUS[sku_i]
           channel == cfg.CHANNELS[channel_i]
       IN  IF daily.weekday + 1 > Len(cfg.WEEKDAY_FACTORS[channel])
           THEN /\ pc' = "IndexError"
                /\ UNCHANGED <<rng, histLoop, loc, data>>
           ELSE LET l == RowLocals(cfg, daily, regional, sku, channel, Draws(7))
                    n == NextStore(cfg, sku_i, channel_i, store_idx)
                IN  /\ loc' = l
                    /\ data' = AppendRow(data, daily, regional, l, store_idx, Draws(7))
                    /\ rng' = (rng + 7) % Len(seed)
                    /\ IF n = None
                       THEN /\ pc' = "regions"
                            /\ region_i' = region_i + 1
                            /\ UNCHANGED <<sku_i, channel_i, store_idx>>
                       ELSE /\ sku_i' = n[1] /\ channel_i' = n[2] /\ store_idx' = n[3]
                            /\ UNCHANGED <<pc, region_i>>
                    /\ UNCHANGED day_offset
    /\ UNCHANGED <<daily, regional, teleState, files, world>>

\* The region loop of a day has ended.
NextDay ==
    /\ pc = "regions" /\ region_i > Len(cfg.REGIONS)
    /\ day_offset' = day_offset + 1
    /\ pc' = "days"
    /\ UNCHANGED <<rng, region_i, sku_i, channel_i, store_idx, histState, teleState,
                   files, world>>

\* The day loop has ended: historical_sales.csv is written.
SaveHistorical ==
    /\ pc = "days" /\ day_offset >= NUM_DAYS
    /\ files' = [f \in DOMAIN files \cup {"historical_sales.csv"} |->
                    IF f = "historical_sales.csv" THEN data ELSE files[f]]
    /\ pc' = "telemetry"
    /\ UNCHANGED <<rng, histLoop, histState, teleState, world>>

\* generate_intraday_telemetry is called.
StartTelemetry ==
    /\ pc = "telemetry"
    /\ tdata' = <<>>
    /\ start_dt' = [day |-> clock.day - 7, hour |-> clock.hour]
    /\ hour_offset' = 0
    /\ tregion_i' = 1
    /\ pc' = "hours"
    /\ UNCHANGED <<rng, histLoop, histState, tloc, files, world>>

\* One pass of the region loop of the hour loop: a telemetry row is appended.
TelemetryStep ==
    /\ pc = "hours" /\ hour_offset < HOURS /\ tregion_i <= Len(cfg.REGIONS)
    /\ LET l == TelemetryLocals(AddHours(start_dt, hour_offset), cfg.REGIONS[tregion_i],
                                Draws(10))
       IN  /\ tloc' = l
           /\ tdata' = Append(tdata, TelemetryRow(l))
    /\ rng' = (rng + TelemetryDraws(Draws(10))) % Len(seed)
    /\ IF tregion_i < Len(cfg.REGIONS)
       THEN tregion_i' = tregion_i + 1 /\ UNCHANGED hour_offset
       ELSE tregion_i' = 1 /\ hour_offset' = hour_offset + 1
    /\ UNCHANGED <<pc, start_dt, histLoop, histState, files, world>>

\* The hour loop has ended (with no region it makes no pass of the region
\* loop): intraday_telemetry.csv is written.
SaveTelemetry ==
    /\ pc = "hours" /\ (hour_offset >= HOURS \/ cfg.REGIONS = <<>>)
    /\ files' = [f \in DOMAIN files \cup {"intraday_telemetry.csv"} |->
                    IF f = "intraday_telemetry.csv" THEN tdata ELSE files[f]]
    /\ pc' = "done"
    /\ UNCHANGED <<rng, histLoop, histState, teleState, world>>

Next ==
    \/ StartHistorical
    \/ DayStep
    \/ RegionStep
    \/ RowStep
    \/ NextDay
    \/ SaveHistorical
    \/ StartTelemetry
    \/ TelemetryStep
    \/ SaveTelemetry

Spec == Init /\ [][Next]_vars

\* ------------------------------------------------ other ways to start the run
\* Configurations a deployment may inject in place of the reference one.
Configurations ==
    { Configuration,
      [Configuration EXCEPT !.REGIONS = <<>>],
      [Configuration EXCEPT !.SKUS = <<>>],
      [Configuration EXCEPT !.CHANNELS = <<>>],
      [Configuration EXCEPT !.PACKAGING_MAP["MUSH-200g"] = Frac(-1, 5)],
      [Configuration EXCEPT !.WEEKDAY_FACTORS["B2B"] = SubSeq(@, 1, 6)],
      [Configuration EXCEPT !.WEEKDAY_FACTORS["B2C"] = Append(@, Whole(1))] }

InitCfg ==
    /\ \E sd \in Seeds, c \in Clocks, cf \in Configurations : Started(sd, c, cf)
    /\ run = 1 /\ first = None

SpecCfg == InitCfg /\ [][Next]_vars

\* The program is run a second time, at any wall clock, its random source
\* seeded as in the first run; the files of the first run are kept aside.
ReRun ==
    /\ pc = "done" /\ run = 1
    /\ run' = 2
    /\ first' = files
    /\ rng' = 0
    /\ \E c \in Clocks : clock' = c /\ START_DATE' = c.day - NUM_DAYS
    /\ pc' = "main"
    /\ day_offset' = 0 /\ region_i' = 0 /\ sku_i' = 0 /\ channel_i' = 0 /\ store_idx' = 0
    /\ daily' = None /\ regional' = None /\ loc' = None /\ data' = <<>>
    /\ start_dt' = None /\ hour_offset' = 0 /\ tregion_i' = 0 /\ tloc' = None /\ tdata' = <<>>
    /\ files' = NoFiles
    /\ UNCHANGED <<seed, cfg>>

NextRerun == Next \/ ReRun

SpecRerun == Init /\ [][NextRerun]_vars

\* ---------------------------------------------------------------- claims
Max(a, b) == IF a >= b THEN a ELSE b
Rows == 1 .. Len(data)
LastRow == data[Len(data)]
\* The position of x in sequence q, 0 when it is not there.
Pos(q, x) == IF \E i \in 1 .. Len(q) : q[i] = x
             THEN CHOOSE i \in 1 .. Len(q) : q[i] = x ELSE 0
\* The day offset a row's date stands for, -1 when it is none of the run's days.
DayIndex(date) ==
    IF \E k \in 0 .. NUM_DAYS - 1 : DateStr(START_DATE + k) = date
    THEN CHOOSE k \in 0 .. NUM_DAYS - 1 : DateStr(START_DATE + k) = date ELSE -1

\* The rows a row-wise claim is checked on in a state: the row just appended
\* and, when historical_sales.csv has just been written, every row of it.
RowsToCheck ==
    (IF Len(data) > 0 THEN {LastRow} ELSE {})
        \cup (IF pc = "telemetry"
              THEN {files["historical_sales.csv"][i] :
                        i \in 1 .. Len(files["historical_sales.csv"])}
              ELSE {})

\* C1: every row of the historical data satisfies the Row invariant:
\* sales_units <= label_daily_demand, sales_kg = sales_units * unit size,
\* sales_kg <= inventory_received_kg and
\* 0 <= wastage_kg <= max(0, inventory_received_kg - sales_kg).
RowInvariantOf(r) ==
    LET unit == cfg.PACKAGING_MAP[r.sku_id]
    IN  /\ r.sales_units <= r.label_daily_demand
        /\ Frac(r.sales_kg, 100) = FMul(Whole(r.sales_units), unit)
        /\ r.sales_kg <= r.inventory_received_kg
        /\ 0 <= r.wastage_kg
        /\ r.wastage_kg <= Max(0, r.inventory_received_kg - r.sales_kg)

RowInvariant == \A r \in RowsToCheck : RowInvariantOf(r)

\* C1 witness: a row of a disrupted day that sold some but not all of its
\* demand, and a row with spoilage.
RowInvariantWitness ==
    /\ \E i \in Rows : /\ data[i].logistics_disruption_flag = 1
                      /\ 0 < data[i].sales_units
                      /\ data[i].sales_units < data[i].label_daily_demand
    /\ \E j \in Rows : data[j].wastage_kg > 0

\* The last row appended belongs to the day whose features are in daily.
LastRowOfToday == loc # None /\ daily # None /\ Len(data) > 0 /\ LastRow.date = daily.date_str

\* C2: demand_units is the floor of base * seasonality * weekday * fasting *
\* wedding * price_factor * noise, with base 200 for B2B and 50 for B2C, the
\* fasting factor 0.7 only for B2C on a fasting day, the wedding factor
\* 1 + wedding_density only for B2B; it is a natural number, and 220 for B2B
\* with weekday factor 1.1 and every other factor 1.0.
DemandIsFloorOfProduct ==
    /\ LastRowOfToday =>
         LET product ==
                 FMul(FMul(FMul(FMul(FMul(FMul(Whole(loc.base_demand), loc.season_factor),
                     loc.weekday_factor), loc.fasting_impact), loc.wedding_impact),
                     loc.price_factor), loc.noise)
         IN  /\ loc.base_demand = (IF loc.channel = "B2B" THEN 200 ELSE 50)
             /\ loc.fasting_impact =
                   (IF loc.channel = "B2C" /\ daily.panchang_fasting = 1
                    THEN Frac(7, 10) ELSE Whole(1))
             /\ loc.wedding_impact =
                   (IF loc.channel = "B2B" THEN FAdd(Whole(1), daily.wedding_density)
                    ELSE Whole(1))
             /\ loc.demand_units \in Nat
             /\ FLe(Whole(loc.demand_units), product)
             /\ FLt(product, Whole(loc.demand_units + 1))
             /\ LastRow.label_daily_demand = loc.demand_units
    /\ DemandUnits(BaseDemand("B2B"), Whole(1), Frac(11, 10), FastingImpact(0, "B2B"),
                   WeddingImpact(Whole(0), "B2B"), Whole(1), Whole(1)) = 220

\* C2 witness: a B2C row of a fasting day, its demand cut by the factor 0.7.
DemandWitness ==
    /\ LastRowOfToday
    /\ loc.channel = "B2C" /\ daily.panchang_fasting = 1
    /\ loc.fasting_impact = Frac(7, 10) /\ loc.demand_units > 0

DailyFields(r) ==
    <<r.panchang_fasting_flag, r.wedding_density_30d, r.festival_flag,
      r.logistics_disruption_flag>>
RegionFields(r) ==
    <<r.temp_max_c, r.temp_min_c, r.humidity_avg, r.rainfall_mm, r.mandi_price_per_kg,
      r.mandi_price_change_1d>>

\* C3: the daily features are drawn once per day and the regional ones once
\* per (day, region), before the SKU, channel and store loops, which only
\* read them: any row agrees with the row just appended on the daily values
\* when of the same day and on the regional values when of the same day and
\* region, and inside those loops the row just appended carries the values in
\* daily and regional of its scope.
ConditionsSharedInScope ==
    /\ \A i \in Rows :
          /\ data[i].date = LastRow.date => DailyFields(data[i]) = DailyFields(LastRow)
          /\ (data[i].date = LastRow.date /\ data[i].region_id = LastRow.region_id)
                => RegionFields(data[i]) = RegionFields(LastRow)
    /\ (pc = "stores" /\ Len(data) > 0) =>
          /\ LastRow.date = daily.date_str =>
                DailyFields(LastRow) =
                    <<daily.panchang_fasting, Round2(daily.wedding_density),
                      daily.festival_flag, daily.logistics_disruption>>
          /\ (LastRow.date = daily.date_str /\ LastRow.region_id = regional.region) =>
                RegionFields(LastRow) =
                    <<Round1(regional.temp_max), Round1(regional.temp_min),
                      Round1(regional.humidity), Round1(regional.rainfall),
                      Round2(regional.mandi_price), Round2(regional.mandi_change)>>

\* C3 witness: a fasting day with rows of both channels, and rows of two
\* regions of one day that differ in the regional values.
ConditionsWitness ==
    /\ \E i \in Rows, j \in Rows :
          /\ data[i].date = data[j].date
          /\ data[i].panchang_fasting_flag = 1
          /\ data[i].channel = "B2B" /\ data[j].channel = "B2C"
    /\ \E i \in Rows, j \in Rows :
          /\ data[i].date = data[j].date
          /\ data[i].region_id # data[j].region_id
          /\ RegionFields(data[i]) # RegionFields(data[j])

\* What the design asks of a configuration: no empty region, SKU or channel
\* set, no negative unit size, weekday tables of exactly 7 entries.
ValidConfiguration(cf) ==
    /\ cf.REGIONS # <<>> /\ cf.SKUS # <<>> /\ cf.CHANNELS # <<>>
    /\ \A sku \in DOMAIN cf.PACKAGING_MAP : cf.PACKAGING_MAP[sku][1] >= 0
    /\ \A c \in DOMAIN cf.WEEKDAY_FACTORS : Len(cf.WEEKDAY_FACTORS[c]) = 7

\* C4: with a configuration that violates an invariant the generator fails
\* at startup: it never appends a row and never writes a file, not even an
\* empty one.
ConfigurationFailsFast ==
    ~ValidConfiguration(cfg) => data = <<>> /\ tdata = <<>> /\ DOMAIN files = {}

\* C5: a second run with the same configuration and the same random draw
\* sequence writes the same rows as the first, whatever the wall clock.
RerunReproducesRows ==
    (run = 2 /\ pc = "done") => files = first

\* C6: intraday_event of every telemetry row is one of none, heavy_rain and
\* strike, and for the row just appended it is strike when the strike draw
\* fired (also when the heavy_rain draw fired too), heavy_rain when only the
\* heavy_rain draw fired, none when neither did.
EventExclusive ==
    /\ \A i \in 1 .. Len(tdata) : tdata[i].intraday_event \in {"none", "heavy_rain", "strike"}
    /\ tloc # None =>
         LET rain == FLt(tloc.rain_draw, Frac(1, 100))
             strike == FLt(tloc.strike_draw, Frac(5, 1000))
             e == tdata[Len(tdata)].intraday_event
         IN  /\ strike => e = "strike"
             /\ (rain /\ ~strike) => e = "heavy_rain"
             /\ (~rain /\ ~strike) => e = "none"

\* C6 witness: both draws fired and the row's event is strike.
EventWitness ==
    /\ tloc # None
    /\ FLt(tloc.rain_draw, Frac(1, 100)) /\ FLt(tloc.strike_draw, Frac(5, 1000))
    /\ tdata[Len(tdata)].intraday_event = "strike"

\* The key of a row in the nested iteration:
\* <<day index, region index, SKU index, channel index, store index>>.
Key(r) ==
    <<DayIndex(r.date), Pos(cfg.REGIONS, r.region_id), Pos(cfg.SKUS, r.sku_id),
      Pos(cfg.CHANNELS, r.channel), r.store_id[3]>>

RECURSIVE LexLess(_, _)
LexLess(a, b) ==
    /\ a # <<>>
    /\ \/ a[1] < b[1]
       \/ a[1] = b[1] /\ LexLess(Tail(a), Tail(b))

KeyInRange(k) ==
    /\ k[1] \in 0 .. NUM_DAYS - 1
    /\ k[2] \in 1 .. Len(cfg.REGIONS)
    /\ k[3] \in 1 .. Len(cfg.SKUS)
    /\ k[4] \in 1 .. Len(cfg.CHANNELS)
    /\ k[5] \in 0 .. StoreCount - 1

\* C7: the rows are appended in the nested order day, region, SKU, channel,
\* store: the key of the row just appended is one of the combinations and is
\* lexicographically above the key of the row before it, and the file as
\* written holds the rows in strictly increasing key order (so none twice),
\* one for every combination.
RowsInNestedOrder ==
    /\ Len(data) > 0 => KeyInRange(Key(LastRow))
    /\ Len(data) > 1 => LexLess(Key(data[Len(data) - 1]), Key(LastRow))
    /\ pc = "telemetry" =>
          LET rows == files["historical_sales.csv"]
          IN  /\ rows = data
              /\ \A i \in 1 .. Len(rows) : KeyInRange(Key(rows[i]))
              /\ \A i \in 2 .. Len(rows) : LexLess(Key(rows[i - 1]), Key(rows[i]))
              /\ Len(rows) = NUM_DAYS * Len(cfg.REGIONS) * Len(cfg.SKUS)
                                * Len(cfg.CHANNELS) * StoreCount

\* C7 witness: the file is written and holds rows of two days, two regions,
\* two SKUs, two channels and two stores.
NestedOrderWitness ==
    /\ "historical_sales.csv" \in DOMAIN files
    /\ Len(data) > 1
    /\ \A n \in 1 .. 5 : Key(data[1])[n] < Key(LastRow)[n]

\* C8: every (day, region, SKU, channel) yields STORES_PER_REGION rows with
\* distinct store ids, so the file holds
\* NUM_DAYS * |REGIONS| * |SKUS| * |CHANNELS| * STORES_PER_REGION rows.
StoresPerRegionRows ==
    "historical_sales.csv" \in DOMAIN files =>
        LET rows == files["historical_sales.csv"]
        IN  /\ Len(rows) = NUM_DAYS * Len(cfg.REGIONS) * Len(cfg.SKUS) * Len(cfg.CHANNELS)
                              * STORES_PER_REGION
            /\ \A i \in 1 .. Len(rows) :
                  Cardinality({rows[j].store_id : j \in
                      {j \in 1 .. Len(rows) :
                          /\ rows[j].date = rows[i].date
                          /\ rows[j].region_id = rows[i].region_id
                          /\ rows[j].sku_id = rows[i].sku_id
                          /\ rows[j].channel = rows[i].channel}}) = STORES_PER_REGION

\* C9: a telemetry row whose event is strike has a vehicle delay of the strike
\* window, 60 to 300 minutes: the minor delay never replaces it.
StrikeDelayInWindow ==
    \A i \in 1 .. Len(tdata) :
        tdata[i].intraday_event = "strike" =>
            (60 <= tdata[i].vehicle_delay_minutes /\ tdata[i].vehicle_delay_minutes <= 300)

====
